---- MODULE Spec2Model ----
(***************************************************************************)
(* Donation backend: the donation store, the HTTP handlers that create     *)
(* donations and change their status, the statistics aggregation and the   *)
(* socket.io notification layer (handshake authentication, rooms, the      *)
(* donation:create and donation:update-status events).                     *)
(*                                                                         *)
(* Every await of a handler is a suspension point: a handler is a sequence *)
(* of steps, one per store operation or continuation, and steps of         *)
(* different handlers interleave freely.  Any store operation may fail     *)
(* (store unavailable), which throws into the handler's catch block.       *)
(***************************************************************************)
EXTENDS Integers, Sequences, FiniteSets, TLC

\* ---------------------------------------------------------------- bounds
MaxOps == 2        \* requests and socket events handled in one behaviour
MaxConns == 2      \* socket connections attempted in one behaviour

\* ------------------------------------------------------- program constants
MinAmount == 500   \* DonationSchema.amount.min / isFloat({ min: 500 })

\* ------------------------------------------------------------- input sets
Users == {"u1", "a1"}                 \* documents of the users collection
None == "none"                        \* undefined / absent
NoDate == 0                           \* confirmed_at / completed_at unset
NoToken == [id |-> None, valid |-> FALSE]
\* a bearer token: the id claim it carries and whether jwt.verify accepts it
Tokens ==
  {NoToken, [id |-> "u1", valid |-> FALSE], [id |-> "u1", valid |-> TRUE],
   [id |-> "a1", valid |-> TRUE], [id |-> "ghost", valid |-> TRUE]}
HttpTokens == {NoToken, [id |-> "u1", valid |-> TRUE], [id |-> "a1", valid |-> TRUE]}
DonationStatuses == {"pending", "confirmed", "completed", "cancelled"}
StatusInputs == {"confirmed", "completed", "bogus"}
AmountInputs == {499, 700}
Conns == 1..MaxConns
OpIds == 1..MaxOps
\* outcomes of a store operation: TRUE it returns, FALSE it throws.  The
\* HTTP handlers are explored with a store that answers.
StoreOutcomes == BOOLEAN
HttpStoreOutcomes == {TRUE}
RoleTargets == {"a1"}                 \* users whose role is changed

VARIABLES
  JWT_SECRET,   \* process.env.JWT_SECRET is set
  role,         \* users collection: role of each user
  donations,    \* donations collection, a donation's _id is its index
  conn,         \* socket connections: handshake state, whether the credential
                \* was valid, socket.userId, socket.user.role, rooms
  ops,          \* the handlers started so far, with their position and locals
  nOps,         \* number of handlers started
  clock,        \* number of new Date() taken so far
  accounts,     \* users collection: the documents as the auth routes see them
  db,           \* server start: the position and locals of connectDB
  dateNow,      \* Date.now(), in hours since the server started
  paymentMethods,  \* paymentmethods collection
  activityLogs  \* activitylogs collection

\* the state that the donation handlers and the notification hub leave alone
startup == <<accounts, db, dateNow, paymentMethods, activityLogs>>

vars ==
  <<JWT_SECRET, role, donations, conn, ops, nOps, clock, accounts, db, dateNow,
    paymentMethods, activityLogs>>

\* ------------------------------------------------------------ Donation.ts
NoDoc ==
  [id |-> 0, user_id |-> None, amount |-> 0, status |-> None,
   is_anonymous |-> FALSE, confirmed_at |-> NoDate, completed_at |-> NoDate]

\* schema validation run by Donation.create: user_id and amount required,
\* amount >= 500, status in the enum
DonationSchemaNoMin(doc) ==
  /\ doc.user_id # None
  /\ doc.status \in DonationStatuses

DonationSchema(doc) ==
  /\ doc.user_id # None
  /\ doc.amount >= MinAmount
  /\ doc.status \in DonationStatuses

\* ----------------------------------------------------- statistics pipeline
\* { $match: { status: { $in: ['confirmed', 'completed'] } } }
IsCounted(d) == d.status \in {"confirmed", "completed"}

MatchStageNotCancelled(ds) == SelectSeq(ds, LAMBDA d : d.status # "cancelled")

MatchStage(ds) == SelectSeq(ds, IsCounted)

RECURSIVE SumAmount(_)
\* $sum: '$amount' over the matched documents
SumAmount(ds) == IF ds = << >> THEN 0 ELSE Head(ds).amount + SumAmount(Tail(ds))

RECURSIVE AddToSet(_)
\* $addToSet: '$user_id' over the matched documents
AddToSet(ds) == IF ds = << >> THEN {} ELSE {Head(ds).user_id} \cup AddToSet(Tail(ds))

\* { $group: { _id: null, ... } }: no group at all when nothing matched
GroupStage(ds) ==
  IF ds = << >> THEN << >>
  ELSE <<[total_raised |-> SumAmount(ds), total_donations |-> Len(ds),
          unique_donors |-> AddToSet(ds)]>>

\* Donation.aggregate([...]) of the socket handlers
Aggregate(ds) == GroupStage(MatchStage(ds))

\* stats[0]?.total_raised || 0, stats[0]?.unique_donors?.length || 0
StatsPayload(stats) ==
  IF stats = << >> THEN [total_raised |-> 0, total_supporters |-> 0]
  ELSE [total_raised |-> stats[1].total_raised,
        total_supporters |-> Cardinality(stats[1].unique_donors)]

\* GET /stats: the same pipeline with a $project of $size, then stats[0] || zeros
StatsResult(ds) ==
  LET stats == Aggregate(ds) IN
  IF stats = << >>
  THEN [total_raised |-> 0, total_donations |-> 0, total_supporters |-> 0]
  ELSE [total_raised |-> stats[1].total_raised,
        total_donations |-> stats[1].total_donations,
        total_supporters |-> Cardinality(stats[1].unique_donors)]

\* --------------------------------------------------------------- handlers
NoData ==
  [amount |-> 0, user_id |-> None, status |-> None, donationId |-> 0, role |-> None]
NoBody == [message |-> None]

\* a handler: the event or route, its position, the connection (0 for an
\* HTTP request), the authenticated identity and its role, the payload, the
\* donation document it holds and that document's modified paths, the socket
\* events it emitted, and the HTTP response
NewOp ==
  [kind |-> None, pc |-> "idle", conn |-> 0, uid |-> None, role |-> None,
   data |-> NoData, doc |-> NoDoc, mod |-> {}, emits |-> << >>,
   resp |-> 0, body |-> NoBody]

\* payloads of donation:create: amount, and optionally user_id and status
CreatePayloads ==
  {[NoData EXCEPT !.amount = a] : a \in AmountInputs}
  \cup {[NoData EXCEPT !.amount = 700, !.user_id = "a1", !.status = "confirmed"]}

\* payloads of donation:update-status
UpdatePayloads ==
  {[NoData EXCEPT !.donationId = i, !.status = st] : i \in 1..2, st \in StatusInputs}

\* a user document: a user's _id is its index in the collection
NoUser ==
  [email |-> None, password |-> None, role |-> "user",
   reset_password_token |-> None, reset_password_expires |-> NoDate]

\* the users collection when the server starts: the two users
InitialAccounts ==
  <<[NoUser EXCEPT !.email = "u1@bang.org", !.password = "pw-u1"],
    [NoUser EXCEPT !.email = "a1@bang.org", !.password = "pw-a1", !.role = "admin"]>>

\* connectDB: process.env.MONGODB_URI and NODE_ENV, its position, the calls of
\* mongoose.connect made, retryCount, the name of the last error, the seconds
\* waited before each retry, whether mongoose is connected, the exit code of
\* the process, and whether the server listens
NoDb ==
  [uri |-> "mongodb://", env |-> "development", pc |-> "start", attempts |-> 0,
   retryCount |-> 0, error |-> None, waits |-> << >>, connected |-> FALSE,
   exit |-> None, listening |-> FALSE]

\* connectDB returned with a connection and the server listens
DbConnected ==
  [NoDb EXCEPT !.pc = "returned", !.attempts = 1, !.connected = TRUE, !.listening = TRUE]

\* the store when the server starts: one donation made earlier
InitialStore ==
  <<[NoDoc EXCEPT !.id = 1, !.user_id = "u1", !.amount = 500, !.status = "pending"]>>

Init ==
  /\ JWT_SECRET \in BOOLEAN
  /\ role = [u \in Users |-> IF u = "a1" THEN "admin" ELSE "user"]
  /\ donations = InitialStore
  /\ conn = [c \in Conns |->
               [st |-> "connecting", cred |-> FALSE, userId |-> None,
                user |-> None, rooms |-> {}]]
  /\ ops = [o \in OpIds |-> NewOp]
  /\ nOps = 0
  /\ clock = 0
  /\ accounts = InitialAccounts
  /\ dateNow = 0
  /\ paymentMethods = << >>
  /\ activityLogs = << >>
  /\ db = DbConnected


\* ------------------------------------------------------- notification hub
\* io.use(...): the handshake middleware; TRUE when next() is called
\* without an error.  storeOk: User.findById did not throw.
SocketAuthNoUserCheck(tok, storeOk) ==
  /\ tok # NoToken
  /\ JWT_SECRET
  /\ tok.valid
  /\ storeOk

SocketAuth(tok, storeOk) ==
  /\ tok # NoToken                 \* if (!token) next(Error)
  /\ JWT_SECRET                    \* if (!secret) next(Error)
  /\ tok.valid                     \* jwt.verify throws
  /\ storeOk                       \* User.findById throws
  /\ tok.id \in Users              \* if (!user) next(Error)

\* rooms joined in io.on('connection'): user:<id>, and admin for an admin
JoinedRooms(userId, userRole) ==
  {"user:" \o userId} \cup (IF userRole = "admin" THEN {"admin"} ELSE {})

\* socket.user.role of the user document found by the middleware
UserRole(id) == IF id \in Users THEN role[id] ELSE None

\* a credential that verifies against the signing secret and names a user
ValidCredential(tok) == tok # NoToken /\ tok.valid /\ tok.id \in Users

\* a handshake: the middleware, and on success the connection handler.
\* Connections are opened in the order of their numbers.
Connect(c, tok, storeOk) ==
  /\ conn[c].st = "connecting"
  /\ \A b \in Conns : b < c => conn[b].st # "connecting"
  /\ IF SocketAuth(tok, storeOk)
     THEN conn' = [conn EXCEPT ![c] =
                     [st |-> "active", cred |-> ValidCredential(tok), userId |-> tok.id,
                      user |-> UserRole(tok.id),
                      rooms |-> JoinedRooms(tok.id, UserRole(tok.id))]]
     ELSE conn' = [conn EXCEPT ![c] = [@ EXCEPT !.st = "rejected",
                                                !.cred = ValidCredential(tok)]]
  /\ UNCHANGED <<startup, JWT_SECRET, role, donations, ops, nOps, clock>>

\* recipients of socket.emit, io.to(room).emit and io.emit
ToSocket(c) == IF conn[c].st = "active" THEN {c} ELSE {}
ToRoom(r) == {c \in Conns : conn[c].st = "active" /\ r \in conn[c].rooms}
ToAll == {c \in Conns : conn[c].st = "active"}

Event(ev, to, body) == [ev |-> ev, to |-> to, body |-> body]

\* the record of a finished handler is kept until the next request or event
\* arrives; the new handler takes the first free record
Swept == [o \in OpIds |-> IF ops[o].pc = "done" THEN NewOp ELSE ops[o]]
NextOp == CHOOSE o \in OpIds : Swept[o].pc = "idle" /\ \A p \in OpIds : p < o => Swept[p].pc # "idle"
Started(kind, c, uid, r, data) ==
  [NewOp EXCEPT !.kind = kind, !.conn = c, !.uid = uid, !.role = r, !.data = data]

\* catch (error) { socket.emit('error', { message }) }
CatchMessage(kind) ==
  IF kind = "donation:create" THEN "Failed to create donation"
  ELSE "Failed to update donation status"
SocketCatch(c, kind) == Event("error", ToSocket(c), [message |-> CatchMessage(kind)])

\* ---- socket.on('donation:create')
\* { user_id: socket.userId, ...data, status: 'pending' }: a key of the
\* payload replaces the key written before the spread, not the one after it
CreateFields(userId, data) ==
  [NoDoc EXCEPT !.user_id = IF data.user_id # None THEN data.user_id ELSE userId,
                !.amount = data.amount,
                !.status = "pending"]

\* socket.emit('donation:created', ...); io.to('admin').emit('donation:new', ...)
CreatedEventsNewToAll(c, uid, d) ==
  <<Event("donation:created", ToSocket(c),
          [id |-> d.id, amount |-> d.amount, status |-> d.status]),
    Event("donation:new", ToAll,
          [id |-> d.id, user_id |-> uid, amount |-> d.amount])>>

CreatedEvents(c, uid, d) ==
  <<Event("donation:created", ToSocket(c),
          [id |-> d.id, amount |-> d.amount, status |-> d.status]),
    Event("donation:new", ToRoom("admin"),
          [id |-> d.id, user_id |-> uid, amount |-> d.amount])>>

\* the event arrives; Donation.create commits and the handler emits the
\* acknowledgment and the admin notification, or it throws into the catch
DonationCreate(c, data, storeOk) ==
  /\ conn[c].st = "active"
  /\ nOps < MaxOps
  /\ nOps' = nOps + 1
  /\ LET op == Started("donation:create", c, conn[c].userId, conn[c].user, data)
         fields == CreateFields(conn[c].userId, data)
         doc == [fields EXCEPT !.id = Len(donations) + 1]
     IN IF storeOk /\ DonationSchema(fields)
        THEN /\ donations' = Append(donations, doc)
             /\ ops' = [Swept EXCEPT ![NextOp] =
                          [op EXCEPT !.pc = "aggregate", !.doc = doc,
                                     !.emits = CreatedEvents(c, conn[c].userId, doc)]]
        ELSE /\ ops' = [Swept EXCEPT ![NextOp] =
                          [op EXCEPT !.pc = "done", !.emits = <<SocketCatch(c, op.kind)>>]]
             /\ UNCHANGED donations
  /\ UNCHANGED <<startup, JWT_SECRET, role, conn, clock>>

\* the collection as Donation.aggregate of handler o reads it: the store at
\* the time the aggregation runs, after the handler's own write
AggregateInputBeforeWrite(o) == SubSeq(donations, 1, ops[o].doc.id - 1)

AggregateInput(o) == donations

\* Donation.aggregate([...]) of either socket handler returns and
\* io.emit('stats:update', ...) runs, or it throws into the catch
StatsBroadcast(o, storeOk) ==
  /\ ops[o].pc = "aggregate"
  /\ ops' = [ops EXCEPT ![o] =
               [@ EXCEPT !.pc = "done",
                         !.emits = Append(@,
                            IF storeOk
                            THEN Event("stats:update", ToAll,
                                       StatsPayload(Aggregate(AggregateInput(o))))
                            ELSE SocketCatch(ops[o].conn, ops[o].kind))]]
  /\ UNCHANGED <<startup, JWT_SECRET, role, donations, conn, nOps, clock>>

\* ---- socket.on('donation:update-status')
\* if (socket.user.role !== 'admin')
SocketIsAdminAnyRole(c) == conn[c].user \in {"admin", "user"}

SocketIsAdmin(c) == conn[c].user = "admin"

\* Donation.findByIdAndUpdate(id, { status }, { new: true }): only the status
\* is written, and update validators are off unless runValidators is given
FindByIdAndUpdateStatus(ds, id, status) == [ds EXCEPT ![id].status = status]

\* io.to(`user:${donation.user_id}`).emit('donation:status-updated', ...)
\* with the document that findByIdAndUpdate returned
StatusUpdatedEventsToAdmins(d) ==
  <<Event("donation:status-updated", ToRoom("admin"),
          [id |-> d.id, status |-> d.status])>>

StatusUpdatedEvents(d) ==
  <<Event("donation:status-updated", ToRoom("user:" \o d.user_id),
          [id |-> d.id, status |-> d.status])>>

\* the event arrives: the role check, then findByIdAndUpdate commits and the
\* handler notifies the owner's room, or it throws into the catch
DonationUpdateStatus(c, data, storeOk) ==
  /\ conn[c].st = "active"
  /\ nOps < MaxOps
  /\ nOps' = nOps + 1
  /\ LET op == Started("donation:update-status", c, conn[c].userId, conn[c].user, data)
         id == data.donationId
     IN IF ~SocketIsAdmin(c)
        THEN /\ ops' = [Swept EXCEPT ![NextOp] =
                          [op EXCEPT !.pc = "done",
                                     !.emits = <<Event("error", ToSocket(c),
                                                       [message |-> "Unauthorized"])>>]]
             /\ UNCHANGED donations
        ELSE IF ~storeOk
        THEN /\ ops' = [Swept EXCEPT ![NextOp] =
                          [op EXCEPT !.pc = "done", !.emits = <<SocketCatch(c, op.kind)>>]]
             /\ UNCHANGED donations
        ELSE IF id \in DOMAIN donations
        THEN /\ donations' = FindByIdAndUpdateStatus(donations, id, data.status)
             /\ ops' = [Swept EXCEPT ![NextOp] =
                          [op EXCEPT !.pc = "aggregate", !.doc = donations'[id],
                                     !.emits = StatusUpdatedEvents(donations'[id])]]
        ELSE /\ ops' = [Swept EXCEPT ![NextOp] = [op EXCEPT !.pc = "done"]]
             /\ UNCHANGED donations
  /\ UNCHANGED <<startup, JWT_SECRET, role, conn, clock>>

\* ------------------------------------------------------------ HTTP routes
\* authenticate middleware: the bearer token is verified and its user looked
\* up; the id of req.user, or None when the request is answered 401
Authenticate(tok) ==
  IF tok # NoToken /\ JWT_SECRET /\ tok.valid /\ tok.id \in Users THEN tok.id ELSE None

\* isAdmin middleware of the admin router
IsAdmin(userRole) == userRole = "admin"

\* if (req.user!.role !== 'admin') return res.status(403)
RequireAdminAnyRole(userRole) == userRole \in {"admin", "user"}

RequireAdmin(userRole) == userRole = "admin"

\* body('amount').isFloat({ min: 500 })
AmountValidator(amount) == amount >= MinAmount

\* body('status').isIn(['pending', 'confirmed', 'completed', 'cancelled'])
StatusValidator(status) == status \in DonationStatuses

\* a request answered before its handler touched the store
Answered(kind, uid, data, code) ==
  [Started(kind, 0, uid, UserRole(uid), data) EXCEPT !.pc = "done", !.resp = code]

\* ---- POST /api/donations
HttpCreateDonation(tok, amount, storeOk, readsOk) ==
  /\ nOps < MaxOps
  /\ nOps' = nOps + 1
  /\ LET kind == "POST /api/donations"
         uid == Authenticate(tok)
         data == [NoData EXCEPT !.amount = amount]
         fields == [NoDoc EXCEPT !.user_id = uid, !.amount = amount, !.status = "pending"]
         doc == [fields EXCEPT !.id = Len(donations) + 1]
     IN IF uid = None
        THEN /\ ops' = [Swept EXCEPT ![NextOp] = Answered(kind, None, NoData, 401)]
             /\ UNCHANGED donations
        ELSE IF ~AmountValidator(amount)
        THEN /\ ops' = [Swept EXCEPT ![NextOp] = Answered(kind, uid, data, 400)]
             /\ UNCHANGED donations
        ELSE IF storeOk /\ DonationSchema(fields)
        THEN /\ donations' = Append(donations, doc)
             /\ ops' = [Swept EXCEPT ![NextOp] =
                          [Answered(kind, uid, data, IF readsOk THEN 201 ELSE 500)
                             EXCEPT !.doc = doc]]
        ELSE /\ ops' = [Swept EXCEPT ![NextOp] = Answered(kind, uid, data, 500)]
             /\ UNCHANGED donations
  /\ UNCHANGED <<startup, JWT_SECRET, role, conn, clock>>

\* ---- GET /api/donations/stats
HttpGetStats(storeOk) ==
  /\ nOps < MaxOps
  /\ nOps' = nOps + 1
  /\ ops' = [Swept EXCEPT ![NextOp] =
               IF storeOk
               THEN [Answered("GET /api/donations/stats", None, NoData, 200)
                       EXCEPT !.body = StatsResult(donations)]
               ELSE Answered("GET /api/donations/stats", None, NoData, 500)]
  /\ UNCHANGED <<startup, JWT_SECRET, role, donations, conn, clock>>

\* ---- PATCH /api/donations/:id/status and PATCH /api/admin/donations/:id/status
StatusRoutes == {"PATCH /api/donations/:id/status", "PATCH /api/admin/donations/:id/status"}

\* donation.status = status; the timestamps are set if (!donation.confirmed_at),
\* if (!donation.completed_at).  now is the value of new Date().
WithStatus(d, status, now) ==
  [d EXCEPT !.status = status,
            !.confirmed_at = IF status = "confirmed" /\ @ = NoDate THEN now ELSE @,
            !.completed_at = IF status = "completed" /\ @ = NoDate THEN now ELSE @]

\* the paths of the document that the assignments changed
ModifiedPaths(old, new) ==
  {p \in {"status", "confirmed_at", "completed_at"} : old[p] # new[p]}

\* donation.save() writes the modified paths of the document
SaveModified(stored, d, mod) ==
  [p \in DOMAIN stored |-> IF p \in mod THEN d[p] ELSE stored[p]]

\* the request arrives: authentication, the admin check, validation, then
\* Donation.findById returns and the handler changes its copy of the document
HttpPatchStatus(route, tok, id, status, storeOk) ==
  /\ nOps < MaxOps
  /\ nOps' = nOps + 1
  /\ LET uid == Authenticate(tok)
         data == [NoData EXCEPT !.donationId = id, !.status = status]
         admin == IF route = "PATCH /api/donations/:id/status"
                  THEN RequireAdmin(UserRole(uid)) ELSE IsAdmin(UserRole(uid))
     IN IF uid = None
        THEN ops' = [Swept EXCEPT ![NextOp] = Answered(route, None, NoData, 401)] /\ UNCHANGED clock
        ELSE IF ~admin
        THEN ops' = [Swept EXCEPT ![NextOp] = Answered(route, uid, NoData, 403)] /\ UNCHANGED clock
        ELSE IF ~StatusValidator(status)
        THEN ops' = [Swept EXCEPT ![NextOp] = Answered(route, uid, data, 400)] /\ UNCHANGED clock
        ELSE IF ~storeOk
        THEN ops' = [Swept EXCEPT ![NextOp] = Answered(route, uid, data, 500)] /\ UNCHANGED clock
        ELSE IF id \notin DOMAIN donations
        THEN ops' = [Swept EXCEPT ![NextOp] = Answered(route, uid, data, 404)] /\ UNCHANGED clock
        ELSE LET d == WithStatus(donations[id], status, clock + 1) IN
             /\ ops' = [Swept EXCEPT ![NextOp] =
                          [Started(route, 0, uid, UserRole(uid), data)
                             EXCEPT !.pc = "save", !.doc = d,
                                    !.mod = ModifiedPaths(donations[id], d)]]
             /\ clock' = IF d.confirmed_at = clock + 1 \/ d.completed_at = clock + 1
                         THEN clock + 1 ELSE clock
  /\ UNCHANGED <<startup, JWT_SECRET, role, donations, conn>>

\* await donation.save() returns; /api/donations answers with its copy of
\* the document, /api/admin reads the document again first
HttpSave(o, storeOk) ==
  /\ ops[o].pc = "save"
  /\ LET d == ops[o].doc IN
     IF ~storeOk
     THEN /\ ops' = [ops EXCEPT ![o] = [@ EXCEPT !.pc = "done", !.resp = 500]]
          /\ UNCHANGED donations
     ELSE /\ donations' = [donations EXCEPT ![d.id] = SaveModified(@, d, ops[o].mod)]
          /\ ops' = [ops EXCEPT ![o] =
                       IF ops[o].kind = "PATCH /api/donations/:id/status"
                       THEN [@ EXCEPT !.pc = "done", !.resp = 200,
                                      !.body = [status |-> d.status,
                                                confirmed_at |-> d.confirmed_at,
                                                completed_at |-> d.completed_at]]
                       ELSE [@ EXCEPT !.pc = "populate"]]
  /\ UNCHANGED <<startup, JWT_SECRET, role, conn, nOps, clock>>

\* /api/admin: Donation.findById(donation._id).populate(...) returns
HttpPopulate(o, storeOk) ==
  /\ ops[o].pc = "populate"
  /\ LET d == donations[ops[o].doc.id] IN
     ops' = [ops EXCEPT ![o] =
               IF storeOk
               THEN [@ EXCEPT !.pc = "done", !.resp = 200,
                              !.body = [status |-> d.status,
                                        confirmed_at |-> d.confirmed_at,
                                        completed_at |-> d.completed_at]]
               ELSE [@ EXCEPT !.pc = "done", !.resp = 500]]
  /\ UNCHANGED <<startup, JWT_SECRET, role, donations, conn, nOps, clock>>

\* ---- PATCH /api/admin/users/:id/role
HttpSetRole(tok, target, newRole, storeOk) ==
  /\ nOps < MaxOps
  /\ nOps' = nOps + 1
  /\ LET kind == "PATCH /api/admin/users/:id/role"
         uid == Authenticate(tok)
         data == [NoData EXCEPT !.user_id = target, !.role = newRole]
     IN IF uid = None
        THEN ops' = [Swept EXCEPT ![NextOp] = Answered(kind, None, NoData, 401)] /\ UNCHANGED role
        ELSE IF ~IsAdmin(UserRole(uid))
        THEN ops' = [Swept EXCEPT ![NextOp] = Answered(kind, uid, NoData, 403)] /\ UNCHANGED role
        ELSE IF ~storeOk
        THEN ops' = [Swept EXCEPT ![NextOp] = Answered(kind, uid, data, 500)] /\ UNCHANGED role
        ELSE /\ ops' = [Swept EXCEPT ![NextOp] = Answered(kind, uid, data, 200)]
             /\ role' = [role EXCEPT ![target] = newRole]
  /\ UNCHANGED <<startup, JWT_SECRET, donations, conn, clock>>

\* ------------------------------------------------------------ the system
Next ==
  \/ \E c \in Conns, tok \in Tokens, storeOk \in StoreOutcomes : Connect(c, tok, storeOk)
  \/ \E c \in Conns, data \in CreatePayloads, storeOk \in StoreOutcomes :
       DonationCreate(c, data, storeOk)
  \/ \E c \in Conns, data \in UpdatePayloads, storeOk \in StoreOutcomes :
       DonationUpdateStatus(c, data, storeOk)
  \/ \E o \in OpIds, storeOk \in StoreOutcomes : StatsBroadcast(o, storeOk)
  \/ \E tok \in HttpTokens, amount \in AmountInputs, storeOk \in HttpStoreOutcomes, readsOk \in HttpStoreOutcomes :
       HttpCreateDonation(tok, amount, storeOk, readsOk)
  \/ \E storeOk \in HttpStoreOutcomes : HttpGetStats(storeOk)
  \/ \E route \in StatusRoutes, tok \in HttpTokens, id \in 1..2,
        status \in StatusInputs, storeOk \in HttpStoreOutcomes :
       HttpPatchStatus(route, tok, id, status, storeOk)
  \/ \E o \in OpIds, storeOk \in HttpStoreOutcomes : HttpSave(o, storeOk)
  \/ \E o \in OpIds, storeOk \in HttpStoreOutcomes : HttpPopulate(o, storeOk)
  \/ \E tok \in HttpTokens, target \in RoleTargets, newRole \in {"user", "admin"},
        storeOk \in HttpStoreOutcomes :
       HttpSetRole(tok, target, newRole, storeOk)

Spec == Init /\ [][Next]_vars

\* ------------------------------------------------------------ properties
\* the handler of kind k that the step has just started
StartedNow(k) == nOps' = nOps + 1 /\ ops'[NextOp].kind = k

\* the global totals as the specification states them: the sum of amount over
\* the donations that are confirmed or completed, and the number of their owners
CountedIds(ds) == {i \in DOMAIN ds : ds[i].status \in {"confirmed", "completed"}}
RECURSIVE SumOver(_, _)
SumOver(ds, ids) ==
  IF ids = {} THEN 0
  ELSE LET i == CHOOSE j \in ids : TRUE IN ds[i].amount + SumOver(ds, ids \ {i})
TotalRaised(ds) == SumOver(ds, CountedIds(ds))
TotalSupporters(ds) == Cardinality({ds[i].user_id : i \in CountedIds(ds)})

C2_MinAmount ==
  [][/\ \A i \in DOMAIN donations' : donations'[i].amount >= 500
     /\ (StartedNow("POST /api/donations") /\ ops'[NextOp].uid # None
           /\ ops'[NextOp].data.amount < 500) =>
          (donations' = donations /\ ops'[NextOp].resp = 400)
     /\ (StartedNow("donation:create") /\ ops'[NextOp].data.amount < 500) =>
          /\ donations' = donations
          /\ ops'[NextOp].pc = "done"
          /\ Len(ops'[NextOp].emits) = 1
          /\ ops'[NextOp].emits[1].ev = "error"
          /\ ops'[NextOp].emits[1].to = {ops'[NextOp].conn}]_vars

\* a donation:create with amount 499 was answered with the error event
C2_Witness ==
  \E o \in OpIds :
    /\ ops[o].kind = "donation:create" /\ ops[o].data.amount = 499
    /\ ops[o].pc = "done" /\ ops[o].emits # << >>

\* C3: confirmed_at and completed_at of a donation are assigned at most once:
\* a timestamp that is set is never changed by a later status update
C3_TimestampsAssignedOnce ==
  [][\A i \in DOMAIN donations :
       /\ donations[i].confirmed_at # NoDate =>
            donations'[i].confirmed_at = donations[i].confirmed_at
       /\ donations[i].completed_at # NoDate =>
            donations'[i].completed_at = donations[i].completed_at]_vars

C5_NonAdminUpdateRejected ==
  [][(StartedNow("donation:update-status") /\ ops'[NextOp].role # "admin") =>
       /\ donations' = donations /\ role' = role
       /\ ops'[NextOp].pc = "done"
       /\ ops'[NextOp].emits =
            <<[ev |-> "error", to |-> {ops'[NextOp].conn},
               body |-> [message |-> "Unauthorized"]]>>]_vars

\* a connection of a user sent donation:update-status for the existing donation 1
C5_Witness ==
  \E o \in OpIds :
    /\ ops[o].kind = "donation:update-status"
    /\ ops[o].role = "user" /\ ops[o].data.donationId = 1
    /\ ops[o].data.status = "confirmed" /\ ops[o].pc = "done"
    /\ donations[1].status = "pending"

\* C6: a connection whose handshake carried no valid credential of an existing
\* user is rejected, is in no room, has no event handled and receives no event
C6_UnauthenticatedRejected ==
  \A c \in Conns :
    (conn[c].st # "connecting" /\ ~conn[c].cred) =>
      /\ conn[c].st = "rejected"
      /\ conn[c].rooms = {}
      /\ \A o \in OpIds :
           /\ ops[o].conn # c
           /\ \A k \in DOMAIN ops[o].emits : c \notin ops[o].emits[k].to

\* one connection was rejected for its credential while another connection
\* received a stats:update broadcast
C6_Witness ==
  \E c \in Conns, o \in OpIds :
    /\ conn[c].st = "rejected" /\ ~conn[c].cred
    /\ \E k \in DOMAIN ops[o].emits :
         ops[o].emits[k].ev = "stats:update" /\ ops[o].emits[k].to # {}

\* C7: the donation persisted by donation:create is owned by the identity bound
\* to the submitting connection and has status pending, whatever the payload
C7_OwnerIsSubmitter ==
  \A o \in OpIds :
    (ops[o].kind = "donation:create" /\ ops[o].doc # NoDoc) =>
      /\ ops[o].doc.user_id = conn[ops[o].conn].userId
      /\ ops[o].doc.status = "pending"

\* C8: a donation:create that persists its donation emits donation:created to
\* the submitter only, then donation:new to exactly the connections of the
\* admin room (those whose bound identity has role admin); when the totals are
\* then recomputed it emits, third and last, stats:update with the global
\* totals to all active connections
C8_CreateEmits ==
  [][/\ (StartedNow("donation:create") /\ ops'[NextOp].pc = "aggregate") =>
          LET e == ops'[NextOp].emits IN
          /\ Len(e) = 2
          /\ e[1].ev = "donation:created" /\ e[1].to = {ops'[NextOp].conn}
          /\ e[2].ev = "donation:new"
          /\ e[2].to = {x \in Conns : conn[x].st = "active" /\ conn[x].user = "admin"}
     /\ \A o \in OpIds :
          (/\ ops[o].kind = "donation:create" /\ ops[o].pc = "aggregate"
           /\ ops'[o].pc = "done"
           /\ ops'[o].emits[Len(ops'[o].emits)].ev # "error") =>
            ops'[o].emits =
              Append(ops[o].emits,
                     [ev |-> "stats:update",
                      to |-> {x \in Conns : conn[x].st = "active"},
                      body |-> [total_raised |-> TotalRaised(donations),
                                total_supporters |-> TotalSupporters(donations)]])]_vars

\* a donation:create completed: donation:new went to an admin connection and
\* stats:update to more connections than the admin room
C8_Witness ==
  \E o \in OpIds :
    /\ ops[o].kind = "donation:create" /\ ops[o].pc = "done"
    /\ Len(ops[o].emits) = 3
    /\ ops[o].emits[2].to # {}
    /\ ops[o].emits[3].ev = "stats:update"
    /\ ops[o].emits[3].to # ops[o].emits[2].to

\* C9: a donation:create that ends with the error event has emitted nothing
\* to any other connection and no stats:update
C9_FailureIsScoped ==
  \A o \in OpIds :
    (/\ ops[o].kind = "donation:create"
     /\ \E k \in DOMAIN ops[o].emits : ops[o].emits[k].ev = "error") =>
      \A k \in DOMAIN ops[o].emits :
        /\ ops[o].emits[k].to \subseteq {ops[o].conn}
        /\ ops[o].emits[k].ev # "stats:update"

\* C10: after a donation:update-status of an admin connection has set the
\* status confirmed (completed), the donation has confirmed_at (completed_at)
C10_SocketSetsTimestamps ==
  \A o \in OpIds :
    (ops[o].kind = "donation:update-status" /\ ops[o].doc # NoDoc) =>
      /\ ops[o].data.status = "confirmed" =>
           donations[ops[o].doc.id].confirmed_at # NoDate
      /\ ops[o].data.status = "completed" =>
           donations[ops[o].doc.id].completed_at # NoDate

\* the socket events
SocketEvents == {"donation:create", "donation:update-status"}

\* C11: a donation:update-status of an admin connection that updates an
\* existing donation emits donation:status-updated to exactly the active
\* connections authenticated as the donation's owner; when the totals are then
\* recomputed it emits, second and last, one stats:update with the global
\* totals to all active connections
C11_StatusUpdatedEmits ==
  [][/\ (StartedNow("donation:update-status") /\ ops'[NextOp].pc = "aggregate") =>
          LET e == ops'[NextOp].emits
              owner == donations[ops'[NextOp].data.donationId].user_id
          IN /\ ops'[NextOp].role = "admin"
             /\ Len(e) = 1
             /\ e[1].ev = "donation:status-updated"
             /\ e[1].to = {x \in Conns : conn[x].st = "active" /\ conn[x].userId = owner}
     /\ \A o \in OpIds :
          (/\ ops[o].kind = "donation:update-status" /\ ops[o].pc = "aggregate"
           /\ ops'[o].pc = "done"
           /\ ops'[o].emits[Len(ops'[o].emits)].ev # "error") =>
            /\ Len(ops[o].emits) = 1
            /\ ops'[o].emits =
                 Append(ops[o].emits,
                        [ev |-> "stats:update",
                         to |-> {x \in Conns : conn[x].st = "active"},
                         body |-> [total_raised |-> TotalRaised(donations),
                                   total_supporters |-> TotalSupporters(donations)]])]_vars

\* an admin connection confirmed donation 1: its owner's connection received
\* donation:status-updated, the admin connection did not, both received
\* stats:update
C11_Witness ==
  \E o \in OpIds :
    /\ ops[o].kind = "donation:update-status" /\ ops[o].pc = "done"
    /\ Len(ops[o].emits) = 2
    /\ ops[o].emits[1].ev = "donation:status-updated"
    /\ ops[o].emits[1].to # {}
    /\ ops[o].conn \notin ops[o].emits[1].to
    /\ ops[o].emits[2].ev = "stats:update"
    /\ ops[o].emits[1].to \cup {ops[o].conn} \subseteq ops[o].emits[2].to

\* C12: the handler of a socket event does not start (no store operation, no
\* emit) while the handler of an earlier event of the same connection still
\* has a store operation or an emit to perform
C12_OneEventAtATime ==
  [][\A k \in SocketEvents :
       StartedNow(k) =>
         \A o \in OpIds :
           ~(ops[o].conn = ops'[NextOp].conn /\ ops[o].pc = "aggregate")]_vars

C16_StatusInEnum ==
  \A i \in DOMAIN donations : donations[i].status \in DonationStatuses

\* C17: a mutating donation operation that has succeeded and whose handler has
\* completed - HTTP creation, HTTP status update on either route, socket
\* creation or status update - has recomputed the totals and emitted stats:update
C17_MutationsFanOut ==
  \A o \in OpIds :
    (/\ ops[o].pc = "done"
     /\ \/ ops[o].kind = "POST /api/donations" /\ ops[o].resp = 201
        \/ ops[o].kind \in StatusRoutes /\ ops[o].resp = 200
        \/ /\ ops[o].kind \in SocketEvents /\ ops[o].doc # NoDoc
           /\ \A k \in DOMAIN ops[o].emits : ops[o].emits[k].ev # "error") =>
      \E k \in DOMAIN ops[o].emits : ops[o].emits[k].ev = "stats:update"

\* ------------------------------------------------- leaderboard and listing
\* The read-only routes are explored over every store of at most MaxDocs
\* donations; no handler writes while they run.
MaxDocs == 2       \* donations in the store of the read-only routes

QueryDocs ==
  {[NoDoc EXCEPT !.user_id = u, !.amount = a, !.status = st, !.is_anonymous = an] :
     u \in Users, a \in {500, 700}, st \in {"pending", "confirmed"}, an \in BOOLEAN}

QueryStores ==
  UNION {{[i \in 1..n |-> [f[i] EXCEPT !.id = i]] : f \in [1..n -> QueryDocs]} :
           n \in 0..MaxDocs}

InitQuery ==
  /\ JWT_SECRET = TRUE
  /\ role = [u \in Users |-> IF u = "a1" THEN "admin" ELSE "user"]
  /\ donations \in QueryStores
  /\ conn = [c \in Conns |->
               [st |-> "connecting", cred |-> FALSE, userId |-> None,
                user |-> None, rooms |-> {}]]
  /\ ops = [o \in OpIds |-> NewOp]
  /\ nOps = 0
  /\ clock = 0
  /\ accounts = InitialAccounts
  /\ dateNow = 0
  /\ paymentMethods = << >>
  /\ activityLogs = << >>
  /\ db = DbConnected

\* Math.ceil(total / limit)
CeilDiv(a, b) == (a + b - 1) \div b

\* ---- GET /api/donations/top-supporters
\* query('page').optional().isInt({ min: 1 }), query('limit').optional().isInt({ min: 1, max: 100 })
TopQueryValidator(page, limit) == page >= 1 /\ limit \in 1..100

\* users.full_name of the user joined by $lookup
FullName(u) == "full_name of " \o u

\* { $group: { _id: '$user_id', total_amount: { $sum: '$amount' }, ... } }
\* over the matched documents: the groups' _id, and the total of a group
TopGroupIds(ds) == AddToSet(MatchStage(ds))
TopTotal(ds, u) == SumAmount(SelectSeq(MatchStage(ds), LAMBDA d : d.user_id = u))

\* is_anonymous: { $first: '$is_anonymous' }: the flag of the document of the
\* group that reaches $group first.  The pipeline has no $sort before $group,
\* so any matched document of the donor can be the first.
FirstFlags(ds) ==
  {f \in [TopGroupIds(ds) -> BOOLEAN] :
     \A u \in TopGroupIds(ds) :
       \E i \in DOMAIN ds :
         IsCounted(ds[i]) /\ ds[i].user_id = u /\ ds[i].is_anonymous = f[u]}

\* { $sort: { total_amount: -1 } }: every order of the groups with
\* non-increasing totals; the order of groups with equal totals is not fixed
\* by the sort key
SortStage(ds) ==
  LET G == TopGroupIds(ds)
      n == Cardinality(G)
  IN {s \in [1..n -> G] :
        /\ \A i, j \in 1..n : i # j => s[i] # s[j]
        /\ \A i, j \in 1..n : i < j => TopTotal(ds, s[i]) >= TopTotal(ds, s[j])}

\* { $skip: skip }, { $limit: limit }
SkipLimit(s, skip, limit) ==
  LET last == IF skip + limit < Len(s) THEN skip + limit ELSE Len(s)
  IN SubSeq(s, skip + 1, last)

\* the response mapping: full_name is the placeholder when the group's flag
\* is set, else the user's full_name
TopEntry(u, total, anon) ==
  [user_id |-> u,
   full_name |-> IF anon THEN "Anonymous" ELSE FullName(u),
   total_amount |-> total,
   is_anonymous |-> anon]

\* the body of the 200 answer, for one order of the sort and one choice of $first
TopResponse(ds, page, limit, order, first) ==
  LET pg == SkipLimit(order, (page - 1) * limit, limit)
      total == Cardinality(TopGroupIds(ds))
  IN [supporters |-> [i \in 1..Len(pg) |->
                        TopEntry(pg[i], TopTotal(ds, pg[i]), first[pg[i]])],
      pagination |-> [page |-> page, limit |-> limit, total |-> total,
                      totalPages |-> CeilDiv(total, limit)]]

\* the handler records of the last two requests are kept, the latest first
Latest(rec) ==
  [o \in OpIds |-> IF o = 1 THEN rec ELSE IF o = 2 THEN ops[1] ELSE ops[o]]

HttpTopSupporters(page, limit) ==
  /\ LET kind == "GET /api/donations/top-supporters" IN
     IF ~TopQueryValidator(page, limit)
     THEN ops' = Latest(Answered(kind, None, NoData, 400))
     ELSE \E order \in SortStage(donations), first \in FirstFlags(donations) :
            ops' = Latest([Answered(kind, None, NoData, 200) EXCEPT
                             !.body = TopResponse(donations, page, limit, order, first)])
  /\ UNCHANGED <<startup, JWT_SECRET, role, donations, conn, nOps, clock>>

NextTop == \E page \in 1..2, limit \in 0..2 : HttpTopSupporters(page, limit)

SpecTop == InitQuery /\ [][NextTop]_vars

\* the 200 answers of the leaderboard that are kept
TopAnswers ==
  {o \in OpIds : ops[o].kind = "GET /api/donations/top-supporters" /\ ops[o].resp = 200}

\* the donors that have a confirmed or completed donation
CountedDonors(ds) == {ds[i].user_id : i \in CountedIds(ds)}

\* C14: every leaderboard answer lists distinct donors that have a confirmed
\* or completed donation, each with the sum of those donations, in
\* non-increasing order of total_amount, with pagination.total the number of
\* such donors; and no donor is on two different pages of the same limit
C14_TopSupporters ==
  /\ \A o \in TopAnswers :
       LET s == ops[o].body.supporters IN
       /\ \A i, j \in DOMAIN s : i # j => s[i].user_id # s[j].user_id
       /\ \A i \in DOMAIN s :
            /\ s[i].user_id \in CountedDonors(donations)
            /\ s[i].total_amount =
                 SumOver(donations, {k \in CountedIds(donations) :
                                       donations[k].user_id = s[i].user_id})
       /\ \A i, j \in DOMAIN s : i < j => s[i].total_amount >= s[j].total_amount
       /\ ops[o].body.pagination.total = Cardinality(CountedDonors(donations))
  /\ \A o, p \in TopAnswers :
       (/\ ops[o].body.pagination.limit = ops[p].body.pagination.limit
        /\ ops[o].body.pagination.page # ops[p].body.pagination.page) =>
         \A i \in DOMAIN ops[o].body.supporters, j \in DOMAIN ops[p].body.supporters :
           ops[o].body.supporters[i].user_id # ops[p].body.supporters[j].user_id

\* C15: the leaderboard entry of a donor who has an anonymous confirmed or
\* completed donation carries the placeholder 'Anonymous', not the full_name
C15_AnonymousPlaceholder ==
  \A o \in TopAnswers :
    \A i \in DOMAIN ops[o].body.supporters :
      LET e == ops[o].body.supporters[i] IN
      (\E k \in CountedIds(donations) :
         donations[k].user_id = e.user_id /\ donations[k].is_anonymous) =>
        e.full_name = "Anonymous"

\* ---- GET /api/donations
\* const query = {}; if (status) query.status = status;
\* if (req.user.role !== 'admin') query.user_id = req.user._id
ListQueryNoOwner(userRole, uid, status) == [status |-> status, user_id |-> None]

ListQuery(userRole, uid, status) ==
  [status |-> status, user_id |-> IF userRole # "admin" THEN uid ELSE None]

\* the documents that match the query
Matches(d, q) ==
  /\ q.status # None => d.status = q.status
  /\ q.user_id # None => d.user_id = q.user_id

RECURSIVE Reverse(_)
\* .sort({ created_at: -1 }): the latest donation first
Reverse(s) == IF s = << >> THEN << >> ELSE Append(Reverse(Tail(s)), Head(s))

\* Donation.find(query).sort(...).skip(skip).limit(limit): limit(0) is no limit
Find(ds, q, skip, limit) ==
  LET found == Reverse(SelectSeq(ds, LAMBDA d : Matches(d, q)))
  IN SkipLimit(found, skip, IF limit = 0 THEN Len(found) ELSE limit)

\* Donation.countDocuments(query)
CountDocuments(ds, q) == Len(SelectSeq(ds, LAMBDA d : Matches(d, q)))

\* the request arrives: authentication, then find and countDocuments return
\* and the handler answers; a negative skip makes find throw
HttpListDonations(tok, status, page, limit) ==
  /\ nOps < MaxOps
  /\ nOps' = nOps + 1
  /\ LET kind == "GET /api/donations"
         uid == Authenticate(tok)
         data == [NoData EXCEPT !.status = status]
         skip == (page - 1) * limit
         q == ListQuery(UserRole(uid), uid, status)
         total == CountDocuments(donations, q)
     IN ops' = [Swept EXCEPT ![NextOp] =
                  IF uid = None THEN Answered(kind, None, NoData, 401)
                  ELSE IF skip < 0 THEN Answered(kind, uid, data, 500)
                  ELSE [Answered(kind, uid, data, 200) EXCEPT
                          !.body = [donations |-> Find(donations, q, skip, limit),
                                    pagination |->
                                      [page |-> page, limit |-> limit, total |-> total,
                                       totalPages |-> IF limit = 0 THEN None
                                                      ELSE CeilDiv(total, limit)]]]]
  /\ UNCHANGED <<startup, JWT_SECRET, role, donations, conn, clock>>

\* the stores of the listing: owner and status are what the query reads
ListStores ==
  {st \in QueryStores :
     \A i \in DOMAIN st : st[i].amount = 500 /\ ~st[i].is_anonymous}

InitList ==
  /\ JWT_SECRET = TRUE
  /\ role = [u \in Users |-> IF u = "a1" THEN "admin" ELSE "user"]
  /\ donations \in ListStores
  /\ conn = [c \in Conns |->
               [st |-> "connecting", cred |-> FALSE, userId |-> None,
                user |-> None, rooms |-> {}]]
  /\ ops = [o \in OpIds |-> NewOp]
  /\ nOps = 0
  /\ clock = 0
  /\ accounts = InitialAccounts
  /\ dateNow = 0
  /\ paymentMethods = << >>
  /\ activityLogs = << >>
  /\ db = DbConnected

NextList ==
  \E tok \in HttpTokens, status \in {None, "confirmed"}, page \in 0..2, limit \in {0, 1, 20} :
    HttpListDonations(tok, status, page, limit)

SpecList == InitList /\ [][NextList]_vars

\* the ids of the donations of owner u (of any owner when u is None) that
\* have the status asked for, if one was asked for
Listable(ds, u, status) ==
  {i \in DOMAIN ds : /\ u # None => ds[i].user_id = u
                     /\ status # None => ds[i].status = status}

\* C18: a 200 answer of GET /api/donations to a requester who is not an admin
\* holds only donations owned by the requester and its pagination.total counts
\* only the requester's donations (of the status asked for), for every status,
\* page and limit; the answer to an admin counts the donations of every owner
C18_ListOwnDonations ==
  \A o \in OpIds :
    (ops[o].kind = "GET /api/donations" /\ ops[o].resp = 200) =>
      LET b == ops[o].body IN
      IF ops[o].role # "admin"
      THEN /\ \A i \in DOMAIN b.donations : b.donations[i].user_id = ops[o].uid
           /\ b.pagination.total =
                Cardinality(Listable(donations, ops[o].uid, ops[o].data.status))
      ELSE /\ b.pagination.total =
                Cardinality(Listable(donations, None, ops[o].data.status))
           /\ \A i \in DOMAIN b.donations :
                b.donations[i].id \in Listable(donations, None, ops[o].data.status)

\* a user who is not an admin listed donations and got one of their own while
\* the store holds a donation of another owner
C18_Witness ==
  \E o \in OpIds :
    /\ ops[o].kind = "GET /api/donations" /\ ops[o].resp = 200
    /\ ops[o].role = "user"
    /\ ops[o].body.donations # << >>
    /\ ops[o].body.pagination.total = 1
    /\ \E i \in DOMAIN donations : donations[i].user_id # ops[o].uid

\* ------------------------------------------------------------------ signup
\* request bodies of POST /api/auth/signup: the email as sent, the length of
\* the password and of the trimmed full_name
SignupBodies ==
  {[email |-> e, password |-> p, full_name |-> n] :
     e \in {"u1@bang.org", "b@bang.org", "B@Bang.org", "b.bang.org"},
     p \in {5, 6}, n \in {1, 2}}

\* body('email').isEmail()
IsEmail(e) == e \in {"u1@bang.org", "a1@bang.org", "b@bang.org", "B@Bang.org"}

\* .normalizeEmail(): the address in lower case
NormalizeEmail(e) == IF e = "B@Bang.org" THEN "b@bang.org" ELSE e

\* the validation chain: email, password of at least 6, full_name of at least 2
SignupValidator(b) == IsEmail(b.email) /\ b.password >= 6 /\ b.full_name >= 2

\* User.findOne({ email })
FindOneByEmail(accs, email) == \E i \in DOMAIN accs : accs[i].email = email

\* the unique index on email of the users collection: TRUE when an insert
\* of this email is accepted
UniqueEmailIndex(accs, email) == \A i \in DOMAIN accs : accs[i].email # email

\* the request arrives: validation, then User.findOne returns
HttpSignup(b) ==
  /\ nOps < MaxOps
  /\ nOps' = nOps + 1
  /\ LET kind == "POST /api/auth/signup"
         data == [b EXCEPT !.email = NormalizeEmail(b.email)]
     IN ops' = [Swept EXCEPT ![NextOp] =
                  IF ~SignupValidator(b) THEN Answered(kind, None, data, 400)
                  ELSE IF FindOneByEmail(accounts, data.email)
                  THEN [Answered(kind, None, data, 400) EXCEPT
                          !.body = [message |-> "User with this email already exists"]]
                  ELSE [Started(kind, 0, None, None, data) EXCEPT !.pc = "create"]]
  /\ UNCHANGED <<db, accounts, dateNow, paymentMethods, activityLogs, JWT_SECRET, role, donations, conn, clock>>

\* User.create returns or throws the duplicate key error of the index; then
\* generateToken, which throws without JWT_SECRET; the catch answers 500
SignupCreate(o) ==
  /\ ops[o].pc = "create"
  /\ LET email == ops[o].data.email IN
     IF ~UniqueEmailIndex(accounts, email)
     THEN /\ ops' = [ops EXCEPT ![o] =
                       [@ EXCEPT !.pc = "done", !.resp = 500,
                                 !.body = [message |-> "Server error during signup"]]]
          /\ UNCHANGED accounts
     ELSE /\ accounts' = Append(accounts, [NoUser EXCEPT !.email = email,
                                                          !.password = "pw-new"])
          /\ ops' = [ops EXCEPT ![o] =
                       IF JWT_SECRET
                       THEN [@ EXCEPT !.pc = "done", !.resp = 201,
                                      !.body = [id |-> Len(accounts) + 1, email |-> email]]
                       ELSE [@ EXCEPT !.pc = "done", !.resp = 500,
                                      !.body = [message |-> "Server error during signup"]]]
  /\ UNCHANGED <<db, dateNow, paymentMethods, activityLogs, JWT_SECRET, role, donations, conn, nOps, clock>>

InitSignup ==
  /\ JWT_SECRET \in BOOLEAN
  /\ role = [u \in Users |-> IF u = "a1" THEN "admin" ELSE "user"]
  /\ donations = InitialStore
  /\ conn = [c \in Conns |->
               [st |-> "connecting", cred |-> FALSE, userId |-> None,
                user |-> None, rooms |-> {}]]
  /\ ops = [o \in OpIds |-> NewOp]
  /\ nOps = 0
  /\ clock = 0
  /\ accounts = InitialAccounts
  /\ dateNow = 0
  /\ paymentMethods = << >>
  /\ activityLogs = << >>
  /\ db = DbConnected

NextSignup ==
  \/ \E b \in SignupBodies : HttpSignup(b)
  \/ \E o \in OpIds : SignupCreate(o)

SpecSignup == InitSignup /\ [][NextSignup]_vars

\* C19: no two users have the same email, and a valid signup whose email
\* belongs to a user when the handler checks or creates is answered 400 and
\* creates no user
C19_DuplicateEmailIs400 ==
  [][/\ \A i, j \in DOMAIN accounts' :
          i # j => accounts'[i].email # accounts'[j].email
     /\ (/\ StartedNow("POST /api/auth/signup")
         /\ SignupValidator(ops'[NextOp].data)
         /\ FindOneByEmail(accounts, ops'[NextOp].data.email)) =>
          (ops'[NextOp].resp = 400 /\ accounts' = accounts)
     /\ \A o \in OpIds :
          (/\ ops[o].pc = "create" /\ ops'[o].pc = "done"
           /\ FindOneByEmail(accounts, ops[o].data.email)) =>
            (ops'[o].resp = 400 /\ accounts' = accounts)]_vars

\* --------------------------------------------------------------- connectDB
maxRetries == 3

\* process.env.MONGODB_URI: undefined, without a mongodb scheme, local, Atlas
MongoURIs == {None, "localhost:27017/bang", "mongodb://", "mongodb+srv://"}
\* process.env.NODE_ENV
NodeEnvs == {None, "development", "production"}
\* error.name of a failed mongoose.connect, as the catch tells them apart
ConnectErrors == {"MongooseServerSelectionError", "MongoServerError", "Error"}

\* if (!mongoURI) exit; if (!startsWith('mongodb://') && !startsWith('mongodb+srv://')) exit
ValidURI(uri) == uri \in {"mongodb://", "mongodb+srv://"}

\* if (retryCount < maxRetries): wait before the next attempt
ShouldWaitAlways(retryCount) == TRUE

ShouldWait(retryCount) == retryCount < maxRetries

\* const waitTime = retryCount * 2
WaitTime(retryCount) == retryCount * 2

\* const isDevelopment = process.env.NODE_ENV !== 'production'
IsDevelopment(env) == env # "production"

\* server.ts is loaded: setupSocketHandlers(io) registers io.use and
\* io.on('connection') and returns; process.env.JWT_SECRET is read by the
\* middleware at each handshake, not here.  Then startServer() is called.
SetupSocketHandlers ==
  /\ db.pc = "load"
  /\ db' = [db EXCEPT !.pc = "start"]
  /\ UNCHANGED <<accounts, dateNow, paymentMethods, activityLogs, JWT_SECRET, role, donations,
               conn, ops, nOps, clock>>

\* connectDB is called: the two checks of MONGODB_URI, each process.exit(1)
ConnectDBStart ==
  /\ db.pc = "start"
  /\ db' = IF ValidURI(db.uri)
           THEN [db EXCEPT !.pc = "connecting"]
           ELSE [db EXCEPT !.pc = "exited", !.exit = 1]
  /\ UNCHANGED <<accounts, dateNow, paymentMethods, activityLogs, JWT_SECRET, role, donations,
               conn, ops, nOps, clock>>

\* await mongoose.connect(...) of the loop returns, or throws err: the catch
\* counts the failure and waits, or the loop ends and connectDB returns
\* without a connection (not production) or calls process.exit(1)
MongooseConnect(ok, err) ==
  /\ db.pc = "connecting"
  /\ db.retryCount < maxRetries
  /\ LET tried == [db EXCEPT !.attempts = @ + 1]
         failed == [tried EXCEPT !.retryCount = @ + 1, !.error = err]
     IN db' = IF ok THEN [tried EXCEPT !.pc = "returned", !.connected = TRUE]
              ELSE IF ShouldWait(failed.retryCount)
              THEN [failed EXCEPT !.pc = "waiting",
                                  !.waits = Append(@, WaitTime(failed.retryCount))]
              ELSE IF IsDevelopment(db.env)
              THEN [failed EXCEPT !.pc = "returned"]
              ELSE [failed EXCEPT !.pc = "exited", !.exit = 1]
  /\ UNCHANGED <<accounts, dateNow, paymentMethods, activityLogs, JWT_SECRET, role, donations,
               conn, ops, nOps, clock>>

\* the timer of setTimeout(resolve, waitTime * 1000) fires
WaitElapsed ==
  /\ db.pc = "waiting"
  /\ db' = [db EXCEPT !.pc = "connecting"]
  /\ UNCHANGED <<accounts, dateNow, paymentMethods, activityLogs, JWT_SECRET, role, donations,
               conn, ops, nOps, clock>>

\* startServer: await connectDB() returned; server.listen(PORT)
ServerListen ==
  /\ db.pc = "returned" /\ ~db.listening
  /\ db' = [db EXCEPT !.listening = TRUE]
  /\ UNCHANGED <<accounts, dateNow, paymentMethods, activityLogs, JWT_SECRET, role, donations,
               conn, ops, nOps, clock>>

InitDB ==
  /\ JWT_SECRET \in BOOLEAN
  /\ role = [u \in Users |-> IF u = "a1" THEN "admin" ELSE "user"]
  /\ donations = InitialStore
  /\ conn = [c \in Conns |->
               [st |-> "connecting", cred |-> FALSE, userId |-> None,
                user |-> None, rooms |-> {}]]
  /\ ops = [o \in OpIds |-> NewOp]
  /\ nOps = 0
  /\ clock = 0
  /\ accounts = InitialAccounts
  /\ dateNow = 0
  /\ paymentMethods = << >>
  /\ activityLogs = << >>
  /\ db \in {[NoDb EXCEPT !.pc = "load", !.uri = u, !.env = e] :
              u \in MongoURIs, e \in NodeEnvs}

NextDB ==
  \/ SetupSocketHandlers
  \/ ConnectDBStart
  \/ \E ok \in BOOLEAN, err \in ConnectErrors : MongooseConnect(ok, err)
  \/ WaitElapsed
  \/ ServerListen

\* every await of startServer settles: mongoose.connect within its
\* serverSelectionTimeoutMS, the timers when they are due
FairSpecDB == InitDB /\ [][NextDB]_vars /\ WF_vars(NextDB)

\* connectDB is over: it returned or the process exited
DbOver == db.pc \in {"returned", "exited"}

\* at most 3 attempts, one attempt after a success never, the outcome after
\* the third failure by NODE_ENV, exit code 1
DbAttemptsAndOutcome ==
  /\ db.attempts <= 3 /\ db.retryCount <= db.attempts
  /\ db.connected => (db.pc = "returned" /\ db.attempts = db.retryCount + 1)
  /\ (~db.connected /\ db.attempts > 0) => db.attempts = db.retryCount
  /\ db.retryCount = 3 => DbOver
  /\ (db.pc = "returned" /\ ~db.connected) => (db.retryCount = 3 /\ db.env # "production")
  /\ (db.pc = "exited" /\ db.attempts > 0) =>
       (db.retryCount = 3 /\ db.env = "production" /\ db.exit = 1)
  /\ db.listening => db.pc = "returned"

C21_ExitWithoutSecret ==
  ~JWT_SECRET =>
    /\ ~db.listening
    /\ DbOver => (db.pc = "exited" /\ db.exit = 1)
\* ------------------------------------------- overlapping HTTP status updates
\* The two status routes alone, with every status of the enum as input: the
\* handlers of overlapping requests interleave at their awaits.
NextStatus ==
  \/ \E route \in StatusRoutes, tok \in HttpTokens, id \in 1..2,
        status \in DonationStatuses, storeOk \in HttpStoreOutcomes :
       HttpPatchStatus(route, tok, id, status, storeOk)
  \/ \E o \in OpIds, storeOk \in HttpStoreOutcomes : HttpSave(o, storeOk)
  \/ \E o \in OpIds, storeOk \in HttpStoreOutcomes : HttpPopulate(o, storeOk)

SpecStatus == Init /\ [][NextStatus]_vars

\* C22: the status stored right after the save of an HTTP status update is
\* the status that this update requested, so that of two overlapping updates
\* the one whose save is issued last determines the stored status; and the
\* 200 answer of each update reports the status stored right after its own
\* save, which is the status it requested
C22_LastWriteWins ==
  [][\A o \in OpIds :
       /\ (ops[o].pc = "save" /\ ops'[o].pc # "save" /\ ops'[o].resp # 500) =>
            donations'[ops[o].doc.id].status = ops[o].data.status
       /\ (/\ ops[o].pc \in {"save", "populate"}
           /\ ops'[o].pc = "done" /\ ops'[o].resp = 200) =>
            ops'[o].body.status = ops[o].data.status]_vars

\* C23: a donation:update-status on a connection whose user does not have role
\* admin in the users collection when the event is handled - in particular a
\* user changed from admin to user after the connection was opened - is
\* answered with the scoped Unauthorized error and changes no donation
C23_PrivilegeFollowsRole ==
  [][(StartedNow("donation:update-status") /\ UserRole(ops'[NextOp].uid) # "admin") =>
       /\ donations' = donations
       /\ ops'[NextOp].emits =
            <<[ev |-> "error", to |-> {ops'[NextOp].conn},
               body |-> [message |-> "Unauthorized"]]>>]_vars

\* C24: a donation:create whose handling ends with the error event 'Failed to
\* create donation' has persisted no donation and has emitted no
\* donation:created and no donation:new: the submitter never receives both
\* donation:created and the error event for one donation:create
C24_ErrorMeansNothingCreated ==
  \A o \in OpIds :
    (/\ ops[o].kind = "donation:create"
     /\ \E k \in DOMAIN ops[o].emits :
          /\ ops[o].emits[k].ev = "error"
          /\ ops[o].emits[k].body.message = "Failed to create donation") =>
      /\ ops[o].doc = NoDoc
      /\ \A i \in DOMAIN donations : donations[i] # ops[o].doc
      /\ \A k \in DOMAIN ops[o].emits :
           ops[o].emits[k].ev \notin {"donation:created", "donation:new"}

\* C25: a donor who has a confirmed or completed donation with is_anonymous
\* set is in no leaderboard answer with their real full_name, also when the
\* donor has other confirmed or completed donations that are not anonymous
C25_NoRealNameOfAnonymousDonor ==
  \A o \in TopAnswers :
    \A u \in {donations[k].user_id :
                k \in {j \in CountedIds(donations) : donations[j].is_anonymous}} :
      \A i \in DOMAIN ops[o].body.supporters :
        ops[o].body.supporters[i].user_id = u =>
          ops[o].body.supporters[i].full_name # FullName(u)

\* ------------------------------------------------------------- auth routes
\* The public routes of /api/auth that issue bearer tokens or change
\* passwords.  Every await of a handler is a step; handlers interleave.
MaxTime == 2       \* hours that pass in one behaviour

\* Date.now() + 3600000: a reset token expires one hour after its issue
ResetTTL == 1

\* request inputs: emails (of a1, of nobody, not an email), passwords (of a1,
\* two chosen by the requester, one of 5 characters), reset tokens (issued
\* before the behaviour starts, issued by its first request, empty)
AuthEmails == {"a1@bang.org", "b@bang.org", "b.bang.org"}
AuthPasswords == {"pw-a1", "pw-new", "short"}
NewPasswords == {"pw-new", "pw-two", "short"}
ResetTokenInputs == {"t0", "t1", ""}

\* body('password').isLength({ min: 6 })
PasswordValidator(p) == Len(p) >= 6

\* crypto.createHash('sha256').update(token).digest('hex')
Sha256(t) == "sha256(" \o t \o ")"

\* crypto.randomBytes(32).toString('hex'): a value that no other request draws
RandomBytes(n) == "t" \o ToString(n)

\* user.comparePassword(password): the password matches the stored one
ComparePassword(user, p) == user.password = p

\* jwt.sign({ id }, secret): a bearer token bound to the user's _id
NoBearer == [id |-> 0, valid |-> FALSE]
GenerateToken(id) == [id |-> id, valid |-> TRUE]

\* User.findOne({ role: 'admin' }): the admins of the collection
FindAdmins(accs) == {i \in DOMAIN accs : accs[i].role = "admin"}

\* User.findOne({ email }): the _id of the user, 0 when there is none
FindIdByEmail(accs, email) ==
  IF FindOneByEmail(accs, email)
  THEN CHOOSE i \in DOMAIN accs : accs[i].email = email
  ELSE 0

\* User.findOne({ reset_password_token: hash, reset_password_expires: { $gt: new Date() } })
FindByResetToken(accs, hash, t) ==
  {i \in DOMAIN accs :
     accs[i].reset_password_token = hash /\ accs[i].reset_password_expires > t}

\* the locals of a handler of an auth route: the request body, the _id of the
\* user document it holds, the reset token it generated and its hash and expiry
AuthData ==
  [email |-> None, password |-> None, token |-> None, user |-> 0,
   hash |-> None, expires |-> NoDate]

\* the response body of an auth route: message, bearer token, the role of
\* the user it describes, resetToken
AuthBody == [message |-> None, token |-> NoBearer, role |-> None, resetToken |-> None]

AuthAnswered(kind, data, code, body) ==
  [NewOp EXCEPT !.kind = kind, !.pc = "done", !.data = data, !.resp = code, !.body = body]

AuthStarted(kind, data, pc) == [NewOp EXCEPT !.kind = kind, !.pc = pc, !.data = data]

AuthDone(op, code, body) == [op EXCEPT !.pc = "done", !.resp = code, !.body = body]

\* generateToken throws without JWT_SECRET: the catch answers 500
TokenAnswer(op, code, id, userRole, message) ==
  IF JWT_SECRET
  THEN AuthDone(op, code, [AuthBody EXCEPT !.message = message,
                                           !.token = GenerateToken(id), !.role = userRole])
  ELSE AuthDone(op, 500, [AuthBody EXCEPT !.message = "Server error"])

\* what the handlers of the auth routes leave alone
authFrame == <<db, paymentMethods, activityLogs, JWT_SECRET, role, donations, conn, clock>>

\* ---- POST /api/auth/login
HttpLogin(email, password) ==
  /\ nOps < MaxOps
  /\ nOps' = nOps + 1
  /\ LET kind == "POST /api/auth/login"
         data == [AuthData EXCEPT !.email = NormalizeEmail(email), !.password = password]
         id == FindIdByEmail(accounts, data.email)
         invalid == [AuthBody EXCEPT !.message = "Invalid email or password"]
     IN ops' = [Swept EXCEPT ![NextOp] =
                  IF ~IsEmail(email) \/ password = ""
                  THEN AuthAnswered(kind, data, 400, AuthBody)
                  ELSE IF id = 0 THEN AuthAnswered(kind, data, 401, invalid)
                  ELSE IF ~ComparePassword(accounts[id], password)
                  THEN AuthAnswered(kind, data, 401, invalid)
                  ELSE TokenAnswer(AuthStarted(kind, [data EXCEPT !.user = id], "token"),
                                   200, id, accounts[id].role, None)]
  /\ UNCHANGED <<authFrame, accounts, dateNow>>

\* ---- POST /api/auth/reset-admin-password
\* User.findOne({ role: 'admin' }) returns: 404, or adminUser.password = newPassword
HttpResetAdminPassword(newPassword) ==
  /\ nOps < MaxOps
  /\ nOps' = nOps + 1
  /\ LET kind == "POST /api/auth/reset-admin-password"
         data == [AuthData EXCEPT !.password = newPassword]
     IN IF FindAdmins(accounts) = {}
        THEN ops' = [Swept EXCEPT ![NextOp] =
                       AuthAnswered(kind, data, 404,
                                    [AuthBody EXCEPT !.message = "No admin user found"])]
        ELSE \E i \in FindAdmins(accounts) :
               ops' = [Swept EXCEPT ![NextOp] =
                         AuthStarted(kind, [data EXCEPT !.user = i], "admin-save")]
  /\ UNCHANGED <<authFrame, accounts, dateNow>>

\* await adminUser.save() returns; generateToken; res.json
AdminPasswordSave(o) ==
  /\ ops[o].pc = "admin-save"
  /\ LET i == ops[o].data.user IN
     /\ accounts' = [accounts EXCEPT ![i].password = ops[o].data.password]
     /\ ops' = [ops EXCEPT ![o] =
                  TokenAnswer(@, 200, i, accounts[i].role,
                              "Admin password reset successfully")]
  /\ UNCHANGED <<authFrame, nOps, dateNow>>

\* ---- POST /api/auth/create-first-admin
\* validation, then User.findOne({ role: 'admin' }) returns
HttpCreateFirstAdmin(email, password) ==
  /\ nOps < MaxOps
  /\ nOps' = nOps + 1
  /\ LET kind == "POST /api/auth/create-first-admin"
         data == [AuthData EXCEPT !.email = NormalizeEmail(email), !.password = password]
     IN ops' = [Swept EXCEPT ![NextOp] =
                  IF ~IsEmail(email) \/ ~PasswordValidator(password)
                  THEN AuthAnswered(kind, data, 400, AuthBody)
                  ELSE IF FindAdmins(accounts) # {}
                  THEN AuthAnswered(kind, data, 403,
                                    [AuthBody EXCEPT !.message = "An admin user already exists"])
                  ELSE AuthStarted(kind, data, "find-email")]
  /\ UNCHANGED <<authFrame, accounts, dateNow>>

\* User.findOne({ email }) returns
FirstAdminFindEmail(o) ==
  /\ ops[o].pc = "find-email"
  /\ ops' = [ops EXCEPT ![o] =
               IF FindOneByEmail(accounts, ops[o].data.email)
               THEN AuthDone(@, 400, [AuthBody EXCEPT
                                        !.message = "User with this email already exists"])
               ELSE [@ EXCEPT !.pc = "create-admin"]]
  /\ UNCHANGED <<authFrame, accounts, nOps, dateNow>>

\* User.create({ ..., role: 'admin' }) returns, or throws the duplicate key
\* error that the catch answers 400; generateToken; res.status(201)
FirstAdminCreate(o) ==
  /\ ops[o].pc = "create-admin"
  /\ LET email == ops[o].data.email IN
     IF ~UniqueEmailIndex(accounts, email)
     THEN /\ ops' = [ops EXCEPT ![o] =
                       AuthDone(@, 400, [AuthBody EXCEPT
                                           !.message = "User with this email already exists"])]
          /\ UNCHANGED accounts
     ELSE /\ accounts' = Append(accounts, [NoUser EXCEPT !.email = email,
                                                          !.password = ops[o].data.password,
                                                          !.role = "admin"])
          /\ ops' = [ops EXCEPT ![o] =
                       TokenAnswer([@ EXCEPT !.data.user = Len(accounts) + 1], 201,
                                   Len(accounts) + 1, "admin",
                                   "First admin user created successfully!")]
  /\ UNCHANGED <<authFrame, nOps, dateNow>>

\* ---- POST /api/auth/forgot-password
ForgotMessage == "If an account with that email exists, a password reset link has been sent."

\* resetToken: process.env.NODE_ENV === 'development' ? resetToken : undefined
ResetTokenInBodyAlways(env, token) == token

ResetTokenInBody(env, token) == IF env = "development" THEN token ELSE None

\* validation, then User.findOne({ email }) returns: the answer for an unknown
\* email, or the token is generated and set on the document
HttpForgotPassword(email) ==
  /\ nOps < MaxOps
  /\ nOps' = nOps + 1
  /\ LET kind == "POST /api/auth/forgot-password"
         data == [AuthData EXCEPT !.email = NormalizeEmail(email)]
         id == FindIdByEmail(accounts, data.email)
         resetToken == RandomBytes(nOps + 1)
     IN ops' = [Swept EXCEPT ![NextOp] =
                  IF ~IsEmail(email) THEN AuthAnswered(kind, data, 400, AuthBody)
                  ELSE IF id = 0
                  THEN AuthAnswered(kind, data, 200, [AuthBody EXCEPT !.message = ForgotMessage])
                  ELSE AuthStarted(kind, [data EXCEPT !.user = id, !.token = resetToken,
                                                      !.hash = Sha256(resetToken),
                                                      !.expires = dateNow + ResetTTL],
                                   "forgot-save")]
  /\ UNCHANGED <<authFrame, accounts, dateNow>>

\* await user.save() returns; res.json
ForgotSave(o) ==
  /\ ops[o].pc = "forgot-save"
  /\ accounts' = [accounts EXCEPT
                    ![ops[o].data.user].reset_password_token = ops[o].data.hash,
                    ![ops[o].data.user].reset_password_expires = ops[o].data.expires]
  /\ ops' = [ops EXCEPT ![o] =
               AuthDone(@, 200, [AuthBody EXCEPT
                                   !.message = ForgotMessage,
                                   !.resetToken = ResetTokenInBody(db.env, ops[o].data.token)])]
  /\ UNCHANGED <<authFrame, nOps, dateNow>>

\* ---- POST /api/auth/reset-password
\* validation, then User.findOne({ token hash, expires > now }) returns
HttpResetPassword(token, password) ==
  /\ nOps < MaxOps
  /\ nOps' = nOps + 1
  /\ LET kind == "POST /api/auth/reset-password"
         data == [AuthData EXCEPT !.token = token, !.password = password,
                                  !.hash = Sha256(token)]
         found == FindByResetToken(accounts, data.hash, dateNow)
     IN ops' = [Swept EXCEPT ![NextOp] =
                  IF token = "" \/ ~PasswordValidator(password)
                  THEN AuthAnswered(kind, data, 400, AuthBody)
                  ELSE IF found = {}
                  THEN AuthAnswered(kind, data, 400,
                                    [AuthBody EXCEPT !.message = "Invalid or expired reset token"])
                  ELSE AuthStarted(kind, [data EXCEPT !.user = CHOOSE i \in found : TRUE],
                                   "reset-save")]
  /\ UNCHANGED <<authFrame, accounts, dateNow>>

\* user.password = password; the token and its expiry are unset;
\* await user.save() returns; res.json
ResetSave(o) ==
  /\ ops[o].pc = "reset-save"
  /\ accounts' = [accounts EXCEPT
                    ![ops[o].data.user].password = ops[o].data.password,
                    ![ops[o].data.user].reset_password_token = None,
                    ![ops[o].data.user].reset_password_expires = NoDate]
  /\ ops' = [ops EXCEPT ![o] =
               AuthDone(@, 200, [AuthBody EXCEPT
                                   !.message = "Password has been reset successfully"])]
  /\ UNCHANGED <<authFrame, nOps, dateNow>>

\* an hour passes
Tick ==
  /\ dateNow < MaxTime
  /\ dateNow' = dateNow + 1
  /\ UNCHANGED <<authFrame, accounts, ops, nOps>>

\* the users collection when a behaviour starts: no admin yet; the two users;
\* the two users after a forgot-password of u1 that issued the token t0
AuthStores ==
  {<<InitialAccounts[1]>>,
   InitialAccounts,
   [InitialAccounts EXCEPT ![1].reset_password_token = Sha256("t0"),
                           ![1].reset_password_expires = ResetTTL]}

InitAuth ==
  /\ JWT_SECRET = TRUE
  /\ role = [u \in Users |-> IF u = "a1" THEN "admin" ELSE "user"]
  /\ donations = InitialStore
  /\ conn = [c \in Conns |->
               [st |-> "connecting", cred |-> FALSE, userId |-> None,
                user |-> None, rooms |-> {}]]
  /\ ops = [o \in OpIds |-> NewOp]
  /\ nOps = 0
  /\ clock = 0
  /\ accounts \in AuthStores
  /\ dateNow = 0
  /\ paymentMethods = << >>
  /\ activityLogs = << >>
  /\ db \in {[DbConnected EXCEPT !.env = e] : e \in NodeEnvs}

NextAuth ==
  \/ \E email \in AuthEmails, password \in AuthPasswords : HttpLogin(email, password)
  \/ \E newPassword \in {"pw-new"} : HttpResetAdminPassword(newPassword)
  \/ \E o \in OpIds : AdminPasswordSave(o)
  \/ \E email \in AuthEmails, password \in {"pw-new", "short"} :
       HttpCreateFirstAdmin(email, password)
  \/ \E o \in OpIds : FirstAdminFindEmail(o)
  \/ \E o \in OpIds : FirstAdminCreate(o)
  \/ \E email \in AuthEmails : HttpForgotPassword(email)
  \/ \E o \in OpIds : ForgotSave(o)
  \/ \E token \in ResetTokenInputs, password \in NewPasswords :
       HttpResetPassword(token, password)
  \/ \E o \in OpIds : ResetSave(o)
  \/ Tick

SpecAuth == InitAuth /\ [][NextAuth]_vars

\* handler o completes in this step
Finishes(o) ==
  /\ ops'[o].pc = "done"
  /\ IF nOps' = nOps + 1 THEN o = NextOp ELSE ops[o].pc # "done"

\* the routes of the model that need no bearer token
PublicAuthRoutes ==
  {"POST /api/auth/login", "POST /api/auth/reset-admin-password",
   "POST /api/auth/create-first-admin", "POST /api/auth/forgot-password",
   "POST /api/auth/reset-password"}

\* C26: once an admin exists, a request to a public endpoint that presents no
\* admin's password (and no token) is not answered with a bearer token bound
\* to a user that has role admin, the token that opens the admin-only routes
C26_NoAdminTokenForOutsider ==
  [][\A o \in OpIds :
       (/\ Finishes(o)
        /\ ops'[o].kind \in PublicAuthRoutes
        /\ FindAdmins(accounts) # {}
        /\ ops'[o].body.token.valid
        /\ IsAdmin(accounts'[ops'[o].body.token.id].role)) =>
         \E i \in FindAdmins(accounts) :
           ComparePassword(accounts[i], ops'[o].data.password)]_vars

\* C27: create-first-admin creates an admin only if no admin exists: a request
\* that completes when an admin exists is not answered 201 and creates no
\* user, so at most one request is ever answered 201
C27_FirstAdminOnlyOnce ==
  [][\A o \in OpIds :
       (/\ Finishes(o)
        /\ ops'[o].kind = "POST /api/auth/create-first-admin"
        /\ FindAdmins(accounts) # {}) =>
         (ops'[o].resp # 201 /\ accounts' = accounts)]_vars

\* a user document holds the hash: the token was issued and is not used yet
TokenStored(accs, hash) == \E i \in DOMAIN accs : accs[i].reset_password_token = hash

\* C28: a reset-password that arrives when its token is expired or not stored,
\* or that completes when its token is not stored any more (a reset-password
\* with the same token has succeeded meanwhile), responds 400 and leaves every
\* password unchanged
C28_ResetTokenOnce ==
  [][\A o \in OpIds :
       (/\ Finishes(o)
        /\ ops'[o].kind = "POST /api/auth/reset-password"
        /\ \/ ~TokenStored(accounts, ops'[o].data.hash)
           \/ /\ nOps' = nOps + 1
              /\ FindByResetToken(accounts, ops'[o].data.hash, dateNow) = {}) =>
         /\ ops'[o].resp = 400
         /\ \A i \in DOMAIN accounts : accounts'[i].password = accounts[i].password]_vars

\* ---- forgot-password alone, over the same stores and every NODE_ENV
NextForgot ==
  \/ \E email \in AuthEmails \cup {"u1@bang.org"} : HttpForgotPassword(email)
  \/ \E o \in OpIds : ForgotSave(o)

SpecForgot == InitAuth /\ [][NextForgot]_vars

\* the answer of forgot-password when no user has the email
UnknownEmailBody == [AuthBody EXCEPT !.message = ForgotMessage]

NoMethod == [id |-> None, name |-> None, type |-> None, is_active |-> TRUE]

\* request bodies of POST: name (empty, valid, longer than the schema's 50
\* characters) and type
PaymentBodies ==
  {[name |-> n, type |-> t, is_active |-> None] :
     n \in {"", "PayPal", "A payment method whose name is longer than fifty characters"},
     t \in {"paypal", "cash"}}

\* request bodies of PATCH: the keys that are not undefined (is_active as the
\* JSON text of the boolean)
PaymentUpdates ==
  {[name |-> "Zelle", type |-> None, is_active |-> None],
   [name |-> None, type |-> None, is_active |-> "false"],
   [name |-> None, type |-> "cash", is_active |-> None]}

\* :id of PATCH and DELETE: the method of the initial store, the method that
\* the first request of the behaviour creates, no method
PaymentIds == {"pm0", "pm1", "pm9"}

PaymentTypes == {"gift_card", "bitcoin", "paypal", "other"}

\* the validation chain of POST: name and type (label and the requires_*
\* flags are taken as valid)
PaymentValidator(b) == b.name # "" /\ b.type \in PaymentTypes

\* the validation chain of PATCH: every check is optional()
PaymentUpdateValidator(b) ==
  /\ b.name # None => b.name # ""
  /\ b.type # None => b.type \in PaymentTypes

\* PaymentMethodSchema, run by PaymentMethod.create
PaymentMethodSchema(doc) ==
  /\ doc.name # None /\ Len(doc.name) <= 50
  /\ doc.type \in PaymentTypes

\* ActivityLogSchema, run by ActivityLog.create: action and resource_type
\* are required
ActivityLogSchema(log) == log.action # None /\ log.resource_type # None

\* the document that the payment-method routes pass to ActivityLog.create:
\* user_id, action, details, ip_address, and no resource_type
ActivityLogFields(uid, action, details) ==
  [user_id |-> uid, action |-> action, resource_type |-> None, details |-> details]

\* the position of the method with this _id in the collection, 0 when absent
FindMethod(ms, id) ==
  IF \E i \in DOMAIN ms : ms[i].id = id
  THEN CHOOSE i \in DOMAIN ms : ms[i].id = id
  ELSE 0

\* findByIdAndUpdate(id, updateData, { new: true }): the keys of updateData
ApplyUpdate(m, b) ==
  [m EXCEPT !.name = IF b.name # None THEN b.name ELSE @,
            !.type = IF b.type # None THEN b.type ELSE @,
            !.is_active = IF b.is_active # None THEN b.is_active = "true" ELSE @]

\* findByIdAndDelete(id)
RemoveAt(ms, i) == [j \in 1..(Len(ms) - 1) |-> IF j < i THEN ms[j] ELSE ms[j + 1]]

\* the locals of a handler: req.params.id, req.body, the method document that
\* the store returned, the activity log entry it is about to create
PayData ==
  [id |-> None, body |-> [name |-> None, type |-> None, is_active |-> None],
   method |-> NoMethod, log |-> None]

PayAnswered(kind, uid, data, code) ==
  [NewOp EXCEPT !.kind = kind, !.pc = "done", !.uid = uid, !.role = UserRole(uid),
                !.data = data, !.resp = code]

\* the write is committed and the handler awaits ActivityLog.create
PayLogging(kind, uid, data, method, action, details) ==
  [NewOp EXCEPT !.kind = kind, !.pc = "log", !.uid = uid, !.role = UserRole(uid),
                !.data = [data EXCEPT !.method = method,
                                      !.log = ActivityLogFields(uid, action, details)]]

payFrame == <<accounts, db, dateNow, JWT_SECRET, role, donations, conn, clock>>

\* ---- POST /api/admin/payment-methods
HttpCreatePaymentMethod(tok, b) ==
  /\ nOps < MaxOps
  /\ nOps' = nOps + 1
  /\ LET kind == "POST /api/admin/payment-methods"
         uid == Authenticate(tok)
         data == [PayData EXCEPT !.body = b]
         method == [NoMethod EXCEPT !.id = "pm" \o ToString(nOps + 1),
                                    !.name = b.name, !.type = b.type]
     IN IF uid = None
        THEN ops' = [Swept EXCEPT ![NextOp] = PayAnswered(kind, None, PayData, 401)]
             /\ UNCHANGED paymentMethods
        ELSE IF ~IsAdmin(UserRole(uid))
        THEN ops' = [Swept EXCEPT ![NextOp] = PayAnswered(kind, uid, PayData, 403)]
             /\ UNCHANGED paymentMethods
        ELSE IF ~PaymentValidator(b)
        THEN ops' = [Swept EXCEPT ![NextOp] = PayAnswered(kind, uid, data, 400)]
             /\ UNCHANGED paymentMethods
        ELSE IF ~PaymentMethodSchema(method)
        THEN ops' = [Swept EXCEPT ![NextOp] = PayAnswered(kind, uid, data, 500)]
             /\ UNCHANGED paymentMethods
        ELSE /\ paymentMethods' = Append(paymentMethods, method)
             /\ ops' = [Swept EXCEPT ![NextOp] =
                          PayLogging(kind, uid, data, method, "CREATE_PAYMENT_METHOD",
                                     "Created payment method: " \o b.name)]
  /\ UNCHANGED <<payFrame, activityLogs>>

\* ---- PATCH /api/admin/payment-methods/:id
HttpUpdatePaymentMethod(tok, id, b) ==
  /\ nOps < MaxOps
  /\ nOps' = nOps + 1
  /\ LET kind == "PATCH /api/admin/payment-methods/:id"
         uid == Authenticate(tok)
         data == [PayData EXCEPT !.id = id, !.body = b]
         i == FindMethod(paymentMethods, id)
     IN IF uid = None
        THEN ops' = [Swept EXCEPT ![NextOp] = PayAnswered(kind, None, PayData, 401)]
             /\ UNCHANGED paymentMethods
        ELSE IF ~IsAdmin(UserRole(uid))
        THEN ops' = [Swept EXCEPT ![NextOp] = PayAnswered(kind, uid, PayData, 403)]
             /\ UNCHANGED paymentMethods
        ELSE IF ~PaymentUpdateValidator(b)
        THEN ops' = [Swept EXCEPT ![NextOp] = PayAnswered(kind, uid, data, 400)]
             /\ UNCHANGED paymentMethods
        ELSE IF i = 0
        THEN ops' = [Swept EXCEPT ![NextOp] = PayAnswered(kind, uid, data, 404)]
             /\ UNCHANGED paymentMethods
        ELSE /\ paymentMethods' = [paymentMethods EXCEPT ![i] = ApplyUpdate(@, b)]
             /\ ops' = [Swept EXCEPT ![NextOp] =
                          PayLogging(kind, uid, data, paymentMethods'[i],
                                     "UPDATE_PAYMENT_METHOD",
                                     "Updated payment method: " \o paymentMethods'[i].name)]
  /\ UNCHANGED <<payFrame, activityLogs>>

\* ---- DELETE /api/admin/payment-methods/:id
HttpDeletePaymentMethod(tok, id) ==
  /\ nOps < MaxOps
  /\ nOps' = nOps + 1
  /\ LET kind == "DELETE /api/admin/payment-methods/:id"
         uid == Authenticate(tok)
         data == [PayData EXCEPT !.id = id]
         i == FindMethod(paymentMethods, id)
     IN IF uid = None
        THEN ops' = [Swept EXCEPT ![NextOp] = PayAnswered(kind, None, PayData, 401)]
             /\ UNCHANGED paymentMethods
        ELSE IF ~IsAdmin(UserRole(uid))
        THEN ops' = [Swept EXCEPT ![NextOp] = PayAnswered(kind, uid, PayData, 403)]
             /\ UNCHANGED paymentMethods
        ELSE IF i = 0
        THEN ops' = [Swept EXCEPT ![NextOp] = PayAnswered(kind, uid, data, 404)]
             /\ UNCHANGED paymentMethods
        ELSE /\ paymentMethods' = RemoveAt(paymentMethods, i)
             /\ ops' = [Swept EXCEPT ![NextOp] =
                          PayLogging(kind, uid, data, paymentMethods[i],
                                     "DELETE_PAYMENT_METHOD",
                                     "Deleted payment method: " \o paymentMethods[i].name)]
  /\ UNCHANGED <<payFrame, activityLogs>>

\* await ActivityLog.create(...) returns and the handler answers 201 (POST)
\* or 200, or it throws the validation error and the catch answers 500
PaymentLog(o) ==
  /\ ops[o].pc = "log"
  /\ IF ActivityLogSchema(ops[o].data.log)
     THEN /\ activityLogs' = Append(activityLogs, ops[o].data.log)
          /\ ops' = [ops EXCEPT ![o] =
                       [@ EXCEPT !.pc = "done",
                                 !.resp = IF @.kind = "POST /api/admin/payment-methods"
                                          THEN 201 ELSE 200]]
     ELSE /\ ops' = [ops EXCEPT ![o] = [@ EXCEPT !.pc = "done", !.resp = 500]]
          /\ UNCHANGED activityLogs
  /\ UNCHANGED <<payFrame, paymentMethods, nOps>>

\* the paymentmethods collection when a behaviour starts: one method
InitialMethods == <<[NoMethod EXCEPT !.id = "pm0", !.name = "Bitcoin", !.type = "bitcoin"]>>

InitPay ==
  /\ JWT_SECRET = TRUE
  /\ role = [u \in Users |-> IF u = "a1" THEN "admin" ELSE "user"]
  /\ donations = InitialStore
  /\ conn = [c \in Conns |->
               [st |-> "connecting", cred |-> FALSE, userId |-> None,
                user |-> None, rooms |-> {}]]
  /\ ops = [o \in OpIds |-> NewOp]
  /\ nOps = 0
  /\ clock = 0
  /\ accounts = InitialAccounts
  /\ dateNow = 0
  /\ paymentMethods = InitialMethods
  /\ activityLogs = << >>
  /\ db = DbConnected

NextPay ==
  \/ \E tok \in HttpTokens, b \in PaymentBodies : HttpCreatePaymentMethod(tok, b)
  \/ \E tok \in HttpTokens, id \in PaymentIds, b \in PaymentUpdates :
       HttpUpdatePaymentMethod(tok, id, b)
  \/ \E tok \in HttpTokens, id \in PaymentIds : HttpDeletePaymentMethod(tok, id)
  \/ \E o \in OpIds : PaymentLog(o)

SpecPay == InitPay /\ [][NextPay]_vars

PaymentRoutes ==
  {"POST /api/admin/payment-methods", "PATCH /api/admin/payment-methods/:id",
   "DELETE /api/admin/payment-methods/:id"}

\* C30: a payment-method request that is answered with an error (4xx, 5xx)
\* has written no PaymentMethod, and a request whose PaymentMethod write was
\* committed is answered 201 (POST) or 200 and has appended exactly one
\* ActivityLog entry
C30_ResponseMatchesEffect ==
  [][\A o \in OpIds :
       (Finishes(o) /\ ops'[o].kind \in PaymentRoutes) =>
         /\ ops'[o].resp >= 400 =>
              (ops'[o].data.method = NoMethod /\ paymentMethods' = paymentMethods)
         /\ ops'[o].data.method # NoMethod =>
              /\ ops'[o].resp = (IF ops'[o].kind = "POST /api/admin/payment-methods"
                                 THEN 201 ELSE 200)
              /\ Len(activityLogs') = Len(activityLogs) + 1]_vars
====
